---- MODULE Spec2Model ----
(***************************************************************************)
(* Contact-list ingestion, fair-share distribution among agents, item      *)
(* status tracking and list deletion of the agent-management backend.      *)
(*                                                                         *)
(* Strings are sequences of one-character strings.  Dates are positive     *)
(* integers read from the variable now; 0 stands for an unset Date.        *)
(***************************************************************************)
EXTENDS Integers, Sequences, FiniteSets, TLC

VARIABLES
  agents,   \* Agent collection: id -> document (ids ascend with createdAt)
  lists,    \* List collection: id -> document, in order of insertion
  now,      \* the value the next new Date() returns
  last,     \* the request handled last and the response it got
  procs     \* in-flight updateItemStatus requests (interleaved execution)

vars == <<agents, lists, now, last, procs>>

----------------------------------------------------------------------------
(* Bounds *)

MaxAgents == 2      \* agents in the collection (lifecycle runs)
MaxRows == 2        \* data rows of an uploaded file (lifecycle and mixed files)
MaxLists == 2       \* List documents ever inserted (lifecycle runs)
MaxItems == 2       \* items stored at a time (lifecycle runs)
MaxClock == 2       \* instants the clock tells apart
MaxProcs == 2       \* status updates in flight together (interleaved runs)
MaxDistAgents == 3  \* agents in the collection (distribution runs)
MaxDistRows == 7    \* data rows of an all-valid file (distribution runs)
MaxPercentRows == 40  \* data rows of an uploaded file (percentage runs)
MaxRaceAgents == 1  \* agents in the collection (runs of racing requests)
MaxRaceRows == 2    \* data rows of an uploaded file (runs of racing requests)
MaxRaceIngests == 2 \* uploads in a run of racing requests
MaxRaceDeletes == 2 \* list deletions in a run of racing requests

(* Program constants *)

NameMaxLen == 100
NotesMaxLen == 500
DefaultPage == 1
DefaultLimit == 10
Precision == 53     \* significant bits of a Number (IEEE 754 binary64)

----------------------------------------------------------------------------
(* Strings *)

Min(a, b) == IF a < b THEN a ELSE b

Max(a, b) == IF a > b THEN a ELSE b

Rep(c, n) == [k \in 1..n |-> c]

RECURSIVE TrimLeft(_)
TrimLeft(s) ==
  IF s # <<>> /\ Head(s) = " " THEN TrimLeft(Tail(s)) ELSE s

RECURSIVE TrimRight(_)
TrimRight(s) ==
  IF s # <<>> /\ s[Len(s)] = " " THEN TrimRight(SubSeq(s, 1, Len(s) - 1)) ELSE s

Trim(s) == TrimRight(TrimLeft(s))

PhoneChars == {"0", "1", "2", "3", "4", " ", "(", ")", "-"}

PhonePattern(s) ==
  LET r == IF s # <<>> /\ Head(s) = "+" THEN Tail(s) ELSE s
  IN  Len(r) >= 1 /\ \A k \in 1..Len(r) : r[k] \in PhoneChars

----------------------------------------------------------------------------
(* Numbers: a positive Number is [m, e], m its significant bits (first bit   *)
(* 1, most significant first) and e the exponent of m's last bit, so its     *)
(* value is m * 2^e.  Each operation rounds its exact result to Precision    *)
(* bits, ties to even.                                                       *)

\* bits worked on at a time, so that no integer of the arithmetic overflows
Limb == Precision \div 4

RECURSIVE NatOfBits(_)
NatOfBits(b) ==
  IF b = <<>> THEN 0 ELSE 2 * NatOfBits(SubSeq(b, 1, Len(b) - 1)) + b[Len(b)]

RECURSIVE BitsOfNat(_)
BitsOfNat(n) == IF n = 0 THEN <<>> ELSE Append(BitsOfNat(n \div 2), n % 2)

\* the w lowest bits of n
FixedBits(n, w) == [i \in 1..w |-> (n \div 2^(w - i)) % 2]

\* b + 1
IncBits(b) ==
  LET zeros == {i \in 1..Len(b) : b[i] = 0}
      j == CHOOSE i \in zeros : \A k \in zeros : k <= i
  IN  IF zeros = {} THEN <<1>> \o [i \in 1..Len(b) |-> 0]
      ELSE [i \in 1..Len(b) |-> IF i < j THEN b[i] ELSE IF i = j THEN 1 ELSE 0]

\* the Number of Precision bits b at exponent e, rounded up or not
Rounded(b, e, up) ==
  LET m == IF up THEN IncBits(b) ELSE b
  IN  IF Len(m) > Precision
        THEN [m |-> SubSeq(m, 1, Precision), e |-> e + 1]
        ELSE [m |-> m, e |-> e]

\* n more quotient bits of r / t, r < t < 2^18, after the bits acc
RECURSIVE DivBits(_, _, _, _)
DivBits(r, t, n, acc) ==
  IF n = 0 THEN [bits |-> acc, rem |-> r]
  ELSE LET w == Min(Limb, n)
       IN  DivBits((r * 2^w) % t, t, n - w, acc \o FixedBits((r * 2^w) \div t, w))

\* the least k with c * 2^k >= t
RECURSIVE NormShift(_, _)
NormShift(c, t) == IF c >= t THEN 0 ELSE 1 + NormShift(2 * c, t)

\* c / t of two positive integers below 2^18
Divide(c, t) ==
  LET k == NormShift(c, t)
      ib == BitsOfNat(c \div t)
      q == IF c >= t
             THEN DivBits(c % t, t, Precision - Len(ib), ib)
             ELSE DivBits(c * 2^k - t, t, Precision - 1, <<1>>)
      e == IF c >= t THEN Len(ib) - Precision ELSE 1 - k - Precision
      up == 2 * q.rem > t \/ (2 * q.rem = t /\ q.bits[Precision] = 1)
  IN  Rounded(q.bits, e, up)

\* the bits of b * n + carry for a small natural n, a limb of b at a time
RECURSIVE MulBits(_, _, _)
MulBits(b, n, carry) ==
  IF Len(b) <= Limb THEN BitsOfNat(NatOfBits(b) * n + carry)
  ELSE LET v == NatOfBits(SubSeq(b, Len(b) - Limb + 1, Len(b))) * n + carry
       IN  MulBits(SubSeq(b, 1, Len(b) - Limb), n, v \div 2^Limb)
             \o FixedBits(v, Limb)

\* x * n for a natural n in 1..2^17
Times(x, n) ==
  LET p == MulBits(x.m, n, 0)
      drop == Len(p) - Precision
      head == SubSeq(p, 1, Precision)
      up == /\ p[Precision + 1] = 1
            /\ \/ head[Precision] = 1
               \/ \E j \in (Precision + 2)..Len(p) : p[j] = 1
  IN  IF drop <= 0 THEN [m |-> p, e |-> x.e] ELSE Rounded(head, x.e + drop, up)

\* Math.round(x): the nearest integer, a half goes up
MathRound(x) ==
  LET n == Len(x.m) + x.e
  IN  IF x.e >= 0 THEN NatOfBits(x.m) * 2^(x.e)
      ELSE IF n < 0 THEN 0
      ELSE NatOfBits(SubSeq(x.m, 1, n)) + x.m[n + 1]

\* Math.round((completed / total) * 100) for total > 0
RoundedPercent(completed, total) ==
  IF completed = 0 THEN 0 ELSE MathRound(Times(Divide(completed, total), 100))

----------------------------------------------------------------------------
(* Uploaded files: the header's columns and the data rows, cells as strings *)

RequiredFields == <<"firstname", "phone", "notes">>

Row(f, p, n) == [firstname |-> f, phone |-> p, notes |-> n]

File(cols, rows) == [cols |-> cols, rows |-> rows]

AllCols == {"firstname", "phone", "notes"}

RowA == Row(<<" ", "a">>, <<"+", "1", " ", "2">>, <<>>)
RowB == Row(<<"b">>, <<"(", "3", ")", "-", "4">>, <<" ", "n", " ">>)
RowNoName == Row(<<" ">>, <<"1">>, <<>>)
RowNoPhone == Row(<<"a">>, <<>>, <<"n">>)
RowBadPhone == Row(<<"a">>, <<"a", "b", "c">>, <<>>)
RowLongName == Row(Rep("a", NameMaxLen + 1), <<"1">>, <<>>)
RowPaddedName == Row(<<" ">> \o Rep("a", NameMaxLen), <<"1">>, <<>>)
RowLongNotes == Row(<<"b">>, <<"2">>, Rep("n", NotesMaxLen + 1))
RowNoNameBadPhone == Row(<<" ">>, <<"a", "b", "c">>, <<>>)
RowNoNameNoPhone == Row(<<>>, <<" ">>, <<"n">>)

RowSamples ==
  {RowA, RowB, RowNoName, RowNoPhone, RowBadPhone, RowLongName, RowPaddedName,
   RowLongNotes, RowNoNameBadPhone, RowNoNameNoPhone}

ValidRow(k) == Row(Rep("a", k), <<"1">>, <<>>)

SeqsUpTo(S, n) == UNION {[1..k -> S] : k \in 0..n}

MixedFiles ==
  {File(AllCols, rows) :
     rows \in SeqsUpTo({RowA, RowNoName, RowBadPhone, RowLongName}, MaxRows)}

SingleFiles == {File(AllCols, <<row>>) : row \in RowSamples}

HeaderFiles ==
  {File(cols, rows) : cols \in {{"firstname", "phone"}, {"firstname", "notes"},
                                {"phone", "notes"}},
                      rows \in SeqsUpTo({RowA, RowBadPhone}, 1)}

ValidFiles == {File(AllCols, [k \in 1..n |-> ValidRow(k)]) : n \in 0..MaxDistRows}

LifeFiles ==
  {File(AllCols, rows) : rows \in {<<RowB>>, <<RowB, RowB>>, <<RowB, RowLongName>>}}

----------------------------------------------------------------------------
(* Row validation of uploadAndDistribute *)

\* row[col] is truthy: the column exists and the cell is not the empty string
Truthy(data, row, col) == col \in data.cols /\ row[col] # <<>>

\* variant: only the firstname column is looked for
MissingFieldsNameOnly(data) ==
  SelectSeq(RequiredFields,
            LAMBDA f : data.rows = <<>> \/ (f = "firstname" /\ f \notin data.cols))

MissingFields(data) ==
  SelectSeq(RequiredFields, LAMBDA f : data.rows = <<>> \/ f \notin data.cols)

\* variant: rows are numbered from the first data row
RowErrorFromOne(k, reason) == [row |-> k, reason |-> reason]

\* the error of the data row at position k (1-based): the header is row 1
RowError(k, reason) == [row |-> k + 1, reason |-> reason]

\* variant: the phone's format is not checked
RowReasonAnyPhone(data, row) ==
  IF ~Truthy(data, row, "firstname") \/ Trim(row.firstname) = <<>>
    THEN "FirstName is required"
  ELSE IF ~Truthy(data, row, "phone") \/ Trim(row.phone) = <<>>
    THEN "Phone is required"
  ELSE ""

\* one pass of data.forEach: the error of row k (1-based), or "" when it is kept
RowReason(data, row) ==
  IF ~Truthy(data, row, "firstname") \/ Trim(row.firstname) = <<>>
    THEN "FirstName is required"
  ELSE IF ~Truthy(data, row, "phone") \/ Trim(row.phone) = <<>>
    THEN "Phone is required"
  ELSE IF ~PhonePattern(Trim(row.phone))
    THEN "Invalid phone number format"
  ELSE ""

Contact(data, row) ==
  [firstName |-> Trim(row.firstname),
   phone |-> Trim(row.phone),
   notes |-> Trim(IF Truthy(data, row, "notes") THEN row.notes ELSE <<>>)]

RECURSIVE ValidateRows(_, _, _)
ValidateRows(data, k, acc) ==
  IF k > Len(data.rows) THEN acc
  ELSE LET row == data.rows[k]
           reason == RowReason(data, row)
       IN  ValidateRows(data, k + 1,
             IF reason # ""
               THEN [acc EXCEPT !.errors = Append(@, RowError(k, reason))]
               ELSE [acc EXCEPT !.validatedData = Append(@, Contact(data, row))])

Validate(data) == ValidateRows(data, 1, [validatedData |-> <<>>, errors |-> <<>>])

----------------------------------------------------------------------------
(* Documents *)

Statuses == {"pending", "contacted", "completed", "failed"}

\* listItemSchema: a contact cast to an item, setters (trim) and defaults applied
Item(c) ==
  [firstName |-> Trim(c.firstName), phone |-> Trim(c.phone), notes |-> Trim(c.notes),
   status |-> "pending", contactedAt |-> 0, completedAt |-> 0]

\* listItemSchema validators: required, maxlength, match
ItemValid(it) ==
  /\ it.firstName # <<>> /\ Len(it.firstName) <= NameMaxLen
  /\ it.phone # <<>> /\ PhonePattern(it.phone)
  /\ Len(it.notes) <= NotesMaxLen

\* a removed List document
NoList ==
  [live |-> FALSE, uploadId |-> 0, agentId |-> 0, items |-> <<>>,
   totalItems |-> 0, completedItems |-> 0, pendingItems |-> 0]

\* new List(listData): the counters take their defaults
NewList(uploadId, agentId, agentItems) ==
  [live |-> TRUE, uploadId |-> uploadId, agentId |-> agentId,
   items |-> [k \in 1..Len(agentItems) |-> Item(agentItems[k])],
   totalItems |-> 0, completedItems |-> 0, pendingItems |-> 0]

CountStatus(items, st) == Cardinality({k \in 1..Len(items) : items[k].status = st})

\* variant: the pending counter is set once and never recomputed
PreSaveStalePending(doc) ==
  [doc EXCEPT !.totalItems = Len(doc.items),
              !.completedItems = CountStatus(doc.items, "completed"),
              !.pendingItems = IF doc.totalItems = 0
                                 THEN CountStatus(doc.items, "pending") ELSE @]

\* variant: the counters are patched by adding to what is stored
PreSaveAccumulate(doc) ==
  [doc EXCEPT !.totalItems = Len(doc.items),
              !.completedItems = @ + CountStatus(doc.items, "completed"),
              !.pendingItems = CountStatus(doc.items, "pending")]

\* listSchema.pre("save")
PreSave(doc) ==
  [doc EXCEPT !.totalItems = Len(doc.items),
              !.completedItems = CountStatus(doc.items, "completed"),
              !.pendingItems = CountStatus(doc.items, "pending")]

ListValid(doc) == \A k \in 1..Len(doc.items) : ItemValid(doc.items[k])

\* an Agent document of the collection
AgentDoc(active) ==
  [exists |-> TRUE, isActive |-> active, assignedListsCount |-> 0,
   totalItemsAssigned |-> 0]

\* Agent.findActiveAgents(): the ids of the active agents, oldest first
RECURSIVE ActiveFrom(_, _)
ActiveFrom(ags, id) ==
  IF id > Len(ags) THEN <<>>
  ELSE (IF ags[id].exists /\ ags[id].isActive THEN <<id>> ELSE <<>>)
       \o ActiveFrom(ags, id + 1)

\* variant: every agent of the collection is returned, active or not
FindAllAgents(ags) ==
  [k \in 1..Len(ags) |->
     [id |-> k,
      assignedListsCount |-> ags[k].assignedListsCount,
      totalItemsAssigned |-> ags[k].totalItemsAssigned]]

\* the loaded documents: each carries the counters it was read with
FindActiveAgents(ags) ==
  LET ids == ActiveFrom(ags, 1)
  IN  [k \in 1..Len(ids) |->
         [id |-> ids[k],
          assignedListsCount |-> ags[ids[k]].assignedListsCount,
          totalItemsAssigned |-> ags[ids[k]].totalItemsAssigned]]

\* variant: the item count is not added
IncrementListsOnly(doc, itemsCount) == [doc EXCEPT !.assignedListsCount = @ + 1]

\* agentSchema.methods.incrementAssignedCount on a loaded document
IncrementAssignedCount(doc, itemsCount) ==
  [doc EXCEPT !.assignedListsCount = @ + 1, !.totalItemsAssigned = @ + itemsCount]

\* agent.save(): the modified counters are written to the stored document
SaveAgent(ags, doc) ==
  [ags EXCEPT ![doc.id].assignedListsCount = doc.assignedListsCount,
              ![doc.id].totalItemsAssigned = doc.totalItemsAssigned]

----------------------------------------------------------------------------
(* listSchema.statics.distributeItems *)

\* variant: the remainder goes to the last agents
ItemCountLast(n, m, i) == (n \div m) + (IF i >= m - (n % m) THEN 1 ELSE 0)

ItemCount(n, m, i) == (n \div m) + (IF i < n % m THEN 1 ELSE 0)

\* variant: every slice starts at the first item
SliceFromStart(items, start, end) == SubSeq(items, 1, Min(end - start, Len(items)))

\* items.slice(start, end)
Slice(items, start, end) == SubSeq(items, start + 1, Min(end, Len(items)))

\* variant: a list is saved for every agent, whatever its share
RECURSIVE DistributeFromAlways(_, _, _, _, _, _)
DistributeFromAlways(i, currentIndex, items, agentDocs, uploadId, db) ==
  IF i >= Len(agentDocs) THEN db
  ELSE
    LET agent == agentDocs[i + 1]
        itemCount == ItemCount(Len(items), Len(agentDocs), i)
        agentItems == Slice(items, currentIndex, currentIndex + itemCount)
        list == NewList(uploadId, agent.id, agentItems)
        saved == [db EXCEPT !.lists = Append(@, PreSave(list)),
                            !.distributions = Append(@, Len(db.lists) + 1)]
    IN  IF ~ListValid(list)
          THEN [db EXCEPT !.threw = TRUE]
        ELSE IF ~db.agents[agent.id].exists
          THEN [saved EXCEPT !.threw = TRUE]
        ELSE DistributeFromAlways(i + 1, currentIndex + itemCount, items, agentDocs,
               uploadId,
               [saved EXCEPT !.agents = SaveAgent(@,
                   IncrementAssignedCount(agent, Len(agentItems)))])

\* the loop from agent i (0-indexed) on; db holds the collections, the ids of
\* the saved lists and whether a save threw
RECURSIVE DistributeFrom(_, _, _, _, _, _)
DistributeFrom(i, currentIndex, items, agentDocs, uploadId, db) ==
  IF i >= Len(agentDocs) THEN db
  ELSE
    LET agent == agentDocs[i + 1]
        itemCount == ItemCount(Len(items), Len(agentDocs), i)
        agentItems == Slice(items, currentIndex, currentIndex + itemCount)
        list == NewList(uploadId, agent.id, agentItems)
        saved == [db EXCEPT !.lists = Append(@, PreSave(list)),
                            !.distributions = Append(@, Len(db.lists) + 1)]
    IN  IF Len(agentItems) > 0
          THEN IF ~ListValid(list)
                 THEN [db EXCEPT !.threw = TRUE]        \* list.save() rejects
               ELSE IF ~db.agents[agent.id].exists
                 THEN [saved EXCEPT !.threw = TRUE]     \* agent.save() rejects
               ELSE DistributeFrom(i + 1, currentIndex + itemCount, items, agentDocs,
                      uploadId,
                      [saved EXCEPT !.agents = SaveAgent(@,
                          IncrementAssignedCount(agent, Len(agentItems)))])
          ELSE DistributeFrom(i + 1, currentIndex + itemCount, items, agentDocs,
                 uploadId, db)

DistributeItems(items, agentDocs, uploadId, ags, ls) ==
  DistributeFrom(0, 0, items, agentDocs, uploadId,
    [agents |-> ags, lists |-> ls, distributions |-> <<>>, threw |-> FALSE])

----------------------------------------------------------------------------
(* Requests and responses *)

NoData == File({}, <<>>)

\* what a $group with _id: null yields over no document at all
NoStats ==
  [totalItems |-> 0, completedItems |-> 0, inProgressItems |-> 0,
   pendingItems |-> 0, totalLists |-> 0]

\* the fields of every response; a handler fills in its own
NoResp ==
  [op |-> "none", ok |-> FALSE, code |-> 0, message |-> "", data |-> NoData,
   missing |-> <<>>, errors |-> <<>>, uploadId |-> 0, totalItems |-> 0,
   totalAgents |-> 0, distributions |-> <<>>, listId |-> 0, itemId |-> 0,
   status |-> "", notes |-> <<>>, before |-> "", completionPercentage |-> 0,
   query |-> 0, found |-> {}, stats |-> NoStats, groups |-> <<>>, total |-> 0,
   pages |-> 0]

\* uuidv4(): an id no stored list carries
FreshUploadId(ls) == Len(ls) + 1

Summary(ls, created) ==
  [k \in 1..Len(created) |->
     [agent |-> ls[created[k]].agentId, itemsCount |-> ls[created[k]].totalItems]]

\* uploadAndDistribute: the collections after the request, and the response
UploadAndDistribute(data, ags, ls) ==
  LET req == [NoResp EXCEPT !.op = "ingest", !.data = data, !.code = 400]
      missing == MissingFields(data)
      v == Validate(data)
      agentDocs == FindActiveAgents(ags)
      uploadId == FreshUploadId(ls)
      d == DistributeItems(v.validatedData, agentDocs, uploadId, ags, ls)
      same(resp) == [agents |-> ags, lists |-> ls, resp |-> resp]
  IN  IF missing # <<>>
        THEN same([req EXCEPT !.message = "Missing required columns",
                              !.missing = missing])
      ELSE IF v.errors # <<>>
        THEN same([req EXCEPT !.message = "Data validation failed",
                              !.errors = v.errors])
      ELSE IF v.validatedData = <<>>
        THEN same([req EXCEPT !.message = "No valid data rows found in the file"])
      ELSE IF agentDocs = <<>>
        THEN same([req EXCEPT
                     !.message = "No active agents available for distribution"])
      ELSE IF d.threw
        THEN [agents |-> d.agents, lists |-> d.lists,
              resp |-> [req EXCEPT !.message = "List validation failed"]]
      ELSE [agents |-> d.agents, lists |-> d.lists,
            resp |-> [req EXCEPT !.ok = TRUE, !.code = 200,
                        !.message = "File uploaded and distributed successfully",
                        !.uploadId = uploadId,
                        !.totalItems = Len(v.validatedData),
                        !.totalAgents = Len(agentDocs),
                        !.distributions = Summary(d.lists, d.distributions)]]

----------------------------------------------------------------------------
(* Item status updates *)

\* new Date(): the clock moves on after each reading, as far as it can tell
Tick(t) == IF t < MaxClock THEN t + 1 ELSE t

\* List.findById
FindList(ls, listId) == listId \in 1..Len(ls) /\ ls[listId].live

\* this.items.id(itemId): items are identified by their position
HasItem(doc, itemId) == itemId \in 1..Len(doc.items)

\* variant: a stamp is taken on every entry into the status
SetStatusRestamp(item, status, t) ==
  LET it == [item EXCEPT !.status = status]
  IN  IF status = "contacted" THEN [it EXCEPT !.contactedAt = t]
      ELSE IF status = "completed" THEN [it EXCEPT !.completedAt = t]
      ELSE it

\* variant: a completed item stays completed
SetStatusTerminal(item, status, t) ==
  LET it == [item EXCEPT !.status = IF @ = "completed" THEN @ ELSE status]
  IN  IF it.status = "contacted" /\ it.contactedAt = 0
        THEN [it EXCEPT !.contactedAt = t]
      ELSE IF it.status = "completed" /\ it.completedAt = 0
        THEN [it EXCEPT !.completedAt = t]
      ELSE it

\* lines 124-131 of listSchema.methods.updateItemStatus, on one item at time t
SetStatus(item, status, t) ==
  LET it == [item EXCEPT !.status = status]
  IN  IF status = "contacted" /\ it.contactedAt = 0
        THEN [it EXCEPT !.contactedAt = t]
      ELSE IF status = "completed" /\ it.completedAt = 0
        THEN [it EXCEPT !.completedAt = t]
      ELSE it

\* variant: the notes are assigned whether the request carries any or not
AssignNotesAlways(item, notes) == [item EXCEPT !.notes = Trim(notes)]

\* Object.assign(item, additionalData) with additionalData = {notes} or {}
AssignNotes(item, notes) ==
  IF notes # <<>> THEN [item EXCEPT !.notes = Trim(notes)] ELSE item

\* listSchema.methods.updateItemStatus up to the save, on a loaded document
ApplyItemStatus(doc, itemId, status, notes, t) ==
  [doc EXCEPT !.items[itemId] = AssignNotes(SetStatus(@, status, t), notes)]

\* one field of a document save: a path the request modified is written, any
\* other keeps what is stored
Written(stored, loaded, local) == IF local # loaded THEN local ELSE stored

ItemFields == {"firstName", "phone", "notes", "status", "contactedAt", "completedAt"}

\* this.save() of a loaded List document: pre("save") runs, then the modified
\* paths of the local document are written over the stored one
SaveList(stored, loaded, doc) ==
  LET local == PreSave(doc)
  IN  [stored EXCEPT
         !.items = [k \in 1..Len(stored.items) |->
                      [f \in ItemFields |->
                         Written(stored.items[k][f], loaded.items[k][f],
                                 local.items[k][f])]],
         !.totalItems = Written(@, loaded.totalItems, local.totalItems),
         !.completedItems = Written(@, loaded.completedItems, local.completedItems),
         !.pendingItems = Written(@, loaded.pendingItems, local.pendingItems)]

\* listSchema.methods.getCompletionPercentage
GetCompletionPercentage(doc) ==
  IF doc.totalItems = 0 THEN 0
  ELSE RoundedPercent(doc.completedItems, doc.totalItems)

\* variant: the handler's catch answers every thrown error alike
UpdateLoadedCatchAll(stored, loaded, listId, itemId, status, notes, t) ==
  LET fail == [NoResp EXCEPT !.op = "update"]
      doc == ApplyItemStatus(loaded, itemId, status, notes, t)
      saved == SaveList(stored, loaded, doc)
  IN  IF ~HasItem(loaded, itemId) \/ ~ListValid(doc) \/ ~stored.live
        THEN [list |-> stored,
              resp |-> [fail EXCEPT !.code = 500,
                                    !.message = "Failed to update item status"]]
      ELSE [list |-> saved,
            resp |-> [fail EXCEPT !.ok = TRUE, !.code = 200,
                        !.message = "Item status updated successfully",
                        !.listId = listId, !.itemId = itemId, !.status = status,
                        !.notes = notes, !.before = loaded.items[itemId].status,
                        !.completionPercentage =
                           GetCompletionPercentage(PreSave(doc))]]

\* the part of updateItemStatus after the list is loaded: the stored list
\* after the save, and the response
UpdateLoaded(stored, loaded, listId, itemId, status, notes, t) ==
  LET fail == [NoResp EXCEPT !.op = "update"]
      doc == ApplyItemStatus(loaded, itemId, status, notes, t)
      saved == SaveList(stored, loaded, doc)
  IN  IF ~HasItem(loaded, itemId)
        THEN [list |-> stored,
              resp |-> [fail EXCEPT !.code = 404, !.message = "Item not found"]]
      ELSE IF ~ListValid(doc) \/ ~stored.live
        THEN [list |-> stored,
              resp |-> [fail EXCEPT !.code = 500,
                                    !.message = "Failed to update item status"]]
      ELSE [list |-> saved,
            resp |-> [fail EXCEPT !.ok = TRUE, !.code = 200,
                        !.message = "Item status updated successfully",
                        !.listId = listId, !.itemId = itemId, !.status = status,
                        !.notes = notes, !.before = loaded.items[itemId].status,
                        !.completionPercentage =
                           GetCompletionPercentage(PreSave(doc))]]

\* a stamp was taken by the update: the clock was read
Stamps(loaded, itemId, status) ==
  /\ HasItem(loaded, itemId)
  /\ \/ status = "contacted" /\ loaded.items[itemId].contactedAt = 0
     \/ status = "completed" /\ loaded.items[itemId].completedAt = 0

----------------------------------------------------------------------------
(* deleteList *)

\* variant: the item counter is lowered by one, not by the list's size
DeleteListOneItem(ags, ls, listId) ==
  LET list == ls[listId]
      a == list.agentId
  IN  [agents |->
         IF a \in 1..Len(ags) /\ ags[a].exists
           THEN [ags EXCEPT
                   ![a].assignedListsCount = Max(0, @ - 1),
                   ![a].totalItemsAssigned = Max(0, @ - 1)]
           ELSE ags,
       lists |-> [ls EXCEPT ![listId] = NoList]]

\* variant: the list is removed and the agent's counters are left alone
DeleteListKeepCounters(ags, ls, listId) ==
  [agents |-> ags, lists |-> [ls EXCEPT ![listId] = NoList]]

\* lines 613-624: the agent's counters are lowered, then the list is removed
DeleteList(ags, ls, listId) ==
  LET list == ls[listId]
      a == list.agentId
  IN  [agents |->
         IF a \in 1..Len(ags) /\ ags[a].exists
           THEN [ags EXCEPT
                   ![a].assignedListsCount = Max(0, @ - 1),
                   ![a].totalItemsAssigned = Max(0, @ - list.totalItems)]
           ELSE ags,
       lists |-> [ls EXCEPT ![listId] = NoList]]

\* deleteList: the collections after the request, and the response
DeleteListRequest(ags, ls, listId) ==
  LET fail == [NoResp EXCEPT !.op = "delete"]
      d == DeleteList(ags, ls, listId)
  IN  IF ~FindList(ls, listId)
        THEN [agents |-> ags, lists |-> ls,
              resp |-> [fail EXCEPT !.code = 404, !.listId = listId,
                                    !.message = "List not found"]]
        ELSE [agents |-> d.agents, lists |-> d.lists,
              resp |-> [fail EXCEPT !.ok = TRUE, !.code = 200, !.listId = listId,
                                    !.message = "List deleted successfully"]]

\* updateItemStatus of the controller, run without interruption
UpdateItemStatus(ls, listId, itemId, status, notes, t) ==
  LET fail == [NoResp EXCEPT !.op = "update"]
      u == UpdateLoaded(ls[listId], ls[listId], listId, itemId, status, notes, t)
  IN  IF status \notin Statuses
        THEN [lists |-> ls,
              resp |-> [fail EXCEPT !.code = 400, !.message = "Invalid status"]]
      ELSE IF ~FindList(ls, listId)
        THEN [lists |-> ls,
              resp |-> [fail EXCEPT !.code = 404, !.message = "List not found"]]
      ELSE [lists |-> [ls EXCEPT ![listId] = u.list], resp |-> u.resp]

----------------------------------------------------------------------------
(* Statistics: getDistributions, getAgentLists, getAllDistributions and      *)
(* getDashboardStats.  A document's position in the collection stands for    *)
(* its createdAt.                                                            *)

\* the positions of the stored documents
Stored(ls) == {k \in 1..Len(ls) : ls[k].live}

\* List.find({ field: value }), and a $match stage alike: the positions of the
\* stored documents that match
Find(ls, field, value) == {k \in Stored(ls) : ls[k][field] = value}

\* { $sum: "$field" } over the documents at ids
RECURSIVE SumField(_, _, _)
SumField(ls, ids, field) ==
  IF ids = {} THEN 0
  ELSE LET k == CHOOSE x \in ids : TRUE
       IN  ls[k][field] + SumField(ls, ids \ {k}, field)

\* the $group stage with _id: null over the documents at ids (not empty); the
\* List schema has no inProgressItems path, and $sum of a missing field is 0
GroupStats(ls, ids) ==
  [totalItems |-> SumField(ls, ids, "totalItems"),
   completedItems |-> SumField(ls, ids, "completedItems"),
   inProgressItems |-> 0,
   pendingItems |-> SumField(ls, ids, "pendingItems"),
   totalLists |-> Cardinality(ids)]

\* stats[0] || { ...zeros }
StatsOrZero(ls, ids) == IF ids = {} THEN NoStats ELSE GroupStats(ls, ids)

\* getDistributions
GetDistributions(ls, uploadId) ==
  LET req == [NoResp EXCEPT !.op = "getDistributions", !.query = uploadId]
      ids == Find(ls, "uploadId", uploadId)
  IN  IF ids = {}
        THEN [req EXCEPT !.code = 404,
                         !.message = "No distributions found for this upload"]
        ELSE [req EXCEPT !.ok = TRUE, !.code = 200, !.found = ids,
                         !.stats = StatsOrZero(ls, ids)]

\* List.schema.obj.agentId.cast(agentId): schema.obj is the object the Schema
\* constructor was given, so its agentId entry is the plain definition
\* { type, ref, required, index } of list.js 57-62; that object has no cast
\* method and the call throws a TypeError
CastAgentId(agentId) == [threw |-> TRUE, value |-> agentId]

\* getAgentLists
GetAgentLists(ls, agentId) ==
  LET req == [NoResp EXCEPT !.op = "getAgentLists", !.query = agentId]
      found == Find(ls, "agentId", agentId)
      cast == CastAgentId(agentId)
      ids == Find(ls, "agentId", cast.value)
  IN  IF cast.threw
        THEN [req EXCEPT !.code = 500, !.message = "Failed to fetch agent lists"]
        ELSE [req EXCEPT !.ok = TRUE, !.code = 200, !.found = found,
                         !.stats = StatsOrZero(ls, ids),
                         !.total = Cardinality(found),
                         !.pages = (Cardinality(found) + DefaultLimit - 1)
                                     \div DefaultLimit]

StatusFilters == {"all", "completed", "in_progress", "pending"}

\* matchFilter of getAllDistributions
MatchFilter(status, doc) ==
  IF status = "completed" THEN doc.completedItems = doc.totalItems
  ELSE IF status = "in_progress"
    THEN doc.completedItems > 0 /\ doc.completedItems < doc.totalItems
  ELSE IF status = "pending" THEN doc.completedItems = 0
  ELSE TRUE

\* variant: a group is completed or pending, never in progress
OverallStatusTwoWay(completedItems, totalItems) ==
  IF completedItems = totalItems THEN "completed" ELSE "pending"

\* the $cond of the $addFields stage
OverallStatus(completedItems, totalItems) ==
  IF completedItems = totalItems THEN "completed"
  ELSE IF completedItems > 0 THEN "in_progress"
  ELSE "pending"

\* one document of the $group stage by uploadId, with its $addFields
Group(ls, ids, uploadId) ==
  LET own == {k \in ids : ls[k].uploadId = uploadId}
      g == GroupStats(ls, own)
  IN  [id |-> uploadId, totalItems |-> g.totalItems,
       completedItems |-> g.completedItems, inProgressItems |-> g.inProgressItems,
       pendingItems |-> g.pendingItems,
       assignedAgents |-> Cardinality({ls[k].agentId : k \in own}),
       status |-> OverallStatus(g.completedItems, g.totalItems),
       lists |-> own]

\* the groups of the documents at ids in the order of { $sort: { uploadDate:
\* -1 } }: uploadDate is the createdAt of the group's first document
RECURSIVE GroupsFrom(_, _, _)
GroupsFrom(ls, ids, k) ==
  IF k = 0 THEN <<>>
  ELSE (IF k \in ids /\ \A j \in ids : ls[j].uploadId = ls[k].uploadId => j >= k
          THEN <<Group(ls, ids, ls[k].uploadId)>> ELSE <<>>)
       \o GroupsFrom(ls, ids, k - 1)

\* the $skip and $limit stages
PageOf(q, page, limit) ==
  SubSeq(q, (page - 1) * limit + 1, Min(Len(q), page * limit))

\* getAllDistributions with the default page and limit
GetAllDistributions(ls, status) ==
  LET ids == {k \in Stored(ls) : MatchFilter(status, ls[k])}
      all == GroupsFrom(ls, ids, Len(ls))
      total == Cardinality({ls[k].uploadId : k \in ids})
  IN  [NoResp EXCEPT !.op = "getAllDistributions", !.ok = TRUE, !.code = 200,
                     !.status = status,
                     !.groups = PageOf(all, DefaultPage, DefaultLimit),
                     !.total = total,
                     !.pages = (total + DefaultLimit - 1) \div DefaultLimit]

\* variant: every list counts as a distribution of its own
DashboardPerList(ls) ==
  LET ids == Stored(ls)
      g == StatsOrZero(ls, ids)
  IN  [totalItems |-> g.totalItems, completedItems |-> g.completedItems,
       inProgressItems |-> g.inProgressItems, pendingItems |-> g.pendingItems,
       totalLists |-> g.totalLists,
       activeDistributions |-> Cardinality(ids),
       lastUpload |-> IF ids = {} THEN 0 ELSE CHOOSE k \in ids : \A j \in ids : j <= k,
       completionRate |->
         IF g.totalItems > 0 THEN RoundedPercent(g.completedItems, g.totalItems)
         ELSE 0]

\* dashboardStats of getDashboardStats
Dashboard(ls) ==
  LET ids == Stored(ls)
      g == StatsOrZero(ls, ids)
  IN  [totalItems |-> g.totalItems, completedItems |-> g.completedItems,
       inProgressItems |-> g.inProgressItems, pendingItems |-> g.pendingItems,
       totalLists |-> g.totalLists,
       activeDistributions |-> Cardinality({ls[k].uploadId : k \in ids}),
       lastUpload |-> IF ids = {} THEN 0 ELSE CHOOSE k \in ids : \A j \in ids : j <= k,
       completionRate |->
         IF g.totalItems > 0 THEN RoundedPercent(g.completedItems, g.totalItems)
         ELSE 0]

\* getDashboardStats
GetDashboardStats(ls) ==
  [NoResp EXCEPT !.op = "getDashboardStats", !.ok = TRUE, !.code = 200,
                 !.stats = Dashboard(ls)]

----------------------------------------------------------------------------
(* Requests handled one at a time *)

NotesSamples == {<<>>, <<" ", "m">>}

NoProcs == <<>>

AgentSets(n) == [1..n -> {AgentDoc(TRUE), AgentDoc(FALSE)}]

Init ==
  /\ agents \in AgentSets(MaxAgents)
  /\ lists = <<>>
  /\ now = 1
  /\ last = NoResp
  /\ procs = NoProcs

InitIngest ==
  /\ agents \in UNION {AgentSets(n) : n \in 1..MaxDistAgents}
  /\ lists = <<>>
  /\ now = 1
  /\ last = NoResp
  /\ procs = NoProcs

Ingest(data) ==
  /\ LET r == UploadAndDistribute(data, agents, lists)
     IN  agents' = r.agents /\ lists' = r.lists /\ last' = r.resp
  /\ UNCHANGED <<now, procs>>

RECURSIVE StoredItems(_)
StoredItems(ls) == IF ls = <<>> THEN 0 ELSE Len(Head(ls).items) + StoredItems(Tail(ls))

\* an upload while the collection has room for the lists it can create
IngestLife ==
  \E data \in LifeFiles :
    /\ Len(lists) + Min(Len(data.rows), Len(agents)) <= MaxLists
    /\ StoredItems(lists) + Len(data.rows) <= MaxItems
    /\ Ingest(data)

\* the first upload into an empty collection
IngestFile ==
  \E data \in MixedFiles \cup SingleFiles \cup HeaderFiles \cup ValidFiles :
    /\ lists = <<>>
    /\ Ingest(data)

\* a status update that carries no notes
Update ==
  \E listId \in 1..Len(lists), itemId \in 1..(MaxRows + 1), status \in Statuses :
    LET r == UpdateItemStatus(lists, listId, itemId, status, <<>>, now)
    IN  /\ lists' = r.lists
        /\ last' = r.resp
        /\ now' = IF FindList(lists, listId) /\ Stamps(lists[listId], itemId, status)
                    THEN Tick(now) ELSE now
        /\ UNCHANGED <<agents, procs>>

Delete ==
  \E listId \in 1..Len(lists) :
    LET r == DeleteListRequest(agents, lists, listId)
    IN  /\ agents' = r.agents
        /\ lists' = r.lists
        /\ last' = r.resp
        /\ UNCHANGED <<now, procs>>

Next == IngestLife \/ Update \/ Delete

Spec == Init /\ [][Next]_vars

NextIngest == IngestFile

SpecIngest == InitIngest /\ [][NextIngest]_vars

----------------------------------------------------------------------------
(* Requests handled one at a time, the statistics among them *)

Distributions ==
  \E uploadId \in 1..(MaxLists + 1) :
    /\ last' = GetDistributions(lists, uploadId)
    /\ UNCHANGED <<agents, lists, now, procs>>

AgentLists ==
  \E agentId \in 1..MaxAgents :
    /\ last' = GetAgentLists(lists, agentId)
    /\ UNCHANGED <<agents, lists, now, procs>>

AllDistributions ==
  \E status \in StatusFilters :
    /\ last' = GetAllDistributions(lists, status)
    /\ UNCHANGED <<agents, lists, now, procs>>

DashboardStats ==
  /\ last' = GetDashboardStats(lists)
  /\ UNCHANGED <<agents, lists, now, procs>>

NextStats ==
  \/ IngestLife
  \/ Update
  \/ Delete
  \/ Distributions
  \/ AgentLists
  \/ AllDistributions
  \/ DashboardStats

SpecStats == Init /\ [][NextStats]_vars

----------------------------------------------------------------------------
(* One list of many items, completed item after item (percentages) *)

PercentFiles ==
  {File(AllCols, [k \in 1..n |-> ValidRow(1)]) : n \in 1..MaxPercentRows}

InitPercent ==
  /\ agents = <<AgentDoc(TRUE)>>
  /\ lists = <<>>
  /\ now = 1
  /\ last = NoResp
  /\ procs = NoProcs

IngestPercent ==
  \E data \in PercentFiles :
    /\ lists = <<>>
    /\ Ingest(data)

\* the status update that completes the first pending item of the list
Complete ==
  /\ lists # <<>>
  /\ \E itemId \in 1..Len(lists[1].items) :
       /\ lists[1].items[itemId].status = "pending"
       /\ \A j \in 1..(itemId - 1) : lists[1].items[j].status # "pending"
       /\ LET r == UpdateItemStatus(lists, 1, itemId, "completed", <<>>, now)
          IN  /\ lists' = r.lists
              /\ last' = r.resp
              /\ now' = IF Stamps(lists[1], itemId, "completed") THEN Tick(now) ELSE now
  /\ UNCHANGED <<agents, procs>>

NextPercent == IngestPercent \/ Complete \/ DashboardStats

SpecPercent == InitPercent /\ [][NextPercent]_vars

----------------------------------------------------------------------------
(* Status updates whose steps interleave: each request loads the list        *)
(* (await List.findById), then changes its copy and saves it                 *)
(* (await list.updateItemStatus)                                             *)

IdleProc ==
  [pc |-> "idle", listId |-> 0, itemId |-> 0, status |-> "", notes |-> <<>>,
   doc |-> NoList, ok |-> FALSE]

InitConc ==
  /\ agents \in AgentSets(MaxAgents)
  /\ lists = <<>>
  /\ now = 1
  /\ last = NoResp
  /\ procs = [p \in 1..MaxProcs |-> IdleProc]

\* the upload that fills the empty collection
IngestFirst ==
  \E data \in LifeFiles :
    /\ lists = <<>>
    /\ Ingest(data)

\* lines 467-494 of updateItemStatus: the request arrives and the list is read
Load(p) ==
  /\ procs[p].pc = "idle"
  /\ \E listId \in 1..Len(lists), itemId \in 1..(MaxRows + 1), status \in Statuses,
        notes \in NotesSamples :
       IF FindList(lists, listId)
         THEN /\ procs' = [procs EXCEPT ![p] =
                   [pc |-> "loaded", listId |-> listId, itemId |-> itemId,
                    status |-> status, notes |-> notes, doc |-> lists[listId],
                    ok |-> FALSE]]
              /\ UNCHANGED last
         ELSE /\ procs' = [procs EXCEPT ![p].pc = "done"]
              /\ last' = [NoResp EXCEPT !.op = "update", !.code = 404,
                                        !.message = "List not found"]
  /\ UNCHANGED <<agents, lists, now>>

\* lines 496-526 of updateItemStatus: the copy is changed and saved
Save(p) ==
  /\ procs[p].pc = "loaded"
  /\ LET q == procs[p]
         u == UpdateLoaded(lists[q.listId], q.doc, q.listId, q.itemId, q.status,
                           q.notes, now)
     IN  /\ lists' = [lists EXCEPT ![q.listId] = u.list]
         /\ last' = u.resp
         /\ now' = IF Stamps(q.doc, q.itemId, q.status) THEN Tick(now) ELSE now
         /\ procs' = [procs EXCEPT ![p].pc = "done", ![p].ok = u.resp.ok]
  /\ UNCHANGED agents

NextConc == IngestFirst \/ (\E p \in 1..MaxProcs : Load(p)) \/ (\E p \in 1..MaxProcs : Save(p))

SpecConc == InitConc /\ [][NextConc]_vars

----------------------------------------------------------------------------
(* Uploads, list deletions and agent deletions whose steps interleave.  A    *)
(* request yields at each await: an upload after Agent.findActiveAgents(),   *)
(* after each list.save() and after each agent.save(); a list deletion after *)
(* List.findById, Agent.findById, agent.save() and List.findByIdAndDelete.   *)
(* Requests 1..MaxRaceIngests are uploads, the next MaxRaceDeletes are list  *)
(* deletions; each runs once.  Any storage write may throw.                  *)

IngestProcs == 1..MaxRaceIngests

DeleteProcs == (MaxRaceIngests + 1)..(MaxRaceIngests + MaxRaceDeletes)

RaceFiles == {File(AllCols, [k \in 1..n |-> RowB]) : n \in 1..MaxRaceRows}

\* a request not yet arrived; listsSaved, agentsSaved, removed and threw
\* record what its storage steps did
IdleReq ==
  [kind |-> "none", pc |-> "idle", ok |-> FALSE, threw |-> FALSE,
   items |-> <<>>, agentDocs |-> <<>>, uploadId |-> 0, i |-> 0, currentIndex |-> 0,
   listId |-> 0, totalItems |-> 0, agentId |-> 0, assignedListsCount |-> 0,
   totalItemsAssigned |-> 0, listsSaved |-> 0, agentsSaved |-> 0, removed |-> FALSE]

InitRace ==
  /\ agents \in AgentSets(MaxRaceAgents)
  /\ lists = <<>>
  /\ now = 1
  /\ last = NoResp
  /\ procs = [p \in IngestProcs \cup DeleteProcs |-> IdleReq]

\* uuidv4(): an id that no stored list and no upload in flight carries
FreshRaceUploadId(ls, ps) ==
  CHOOSE u \in 1..(Len(ls) + Len(ps) + 1) :
    /\ \A k \in 1..Len(ls) : ls[k].uploadId # u
    /\ \A p \in 1..Len(ps) : ps[p].uploadId # u
    /\ \A v \in 1..(u - 1) :
         \/ \E k \in 1..Len(ls) : ls[k].uploadId = v
         \/ \E p \in 1..Len(ps) : ps[p].uploadId = v

\* variant: the catch of uploadAndDistribute answers as if nothing had failed
IngestSwallowed(message) ==
  [NoResp EXCEPT !.op = "ingest", !.ok = TRUE, !.code = 200,
                 !.message = "File uploaded and distributed successfully"]

\* the catch of uploadAndDistribute
IngestFailure(message) ==
  [NoResp EXCEPT !.op = "ingest", !.code = 400, !.message = message]

\* line 607 of deleteList: no such list
DeleteNotFound(listId) ==
  [NoResp EXCEPT !.op = "delete", !.code = 404, !.listId = listId,
                 !.message = "List not found"]

\* line 626 of deleteList
DeleteSuccess(listId) ==
  [NoResp EXCEPT !.op = "delete", !.ok = TRUE, !.code = 200, !.listId = listId,
                 !.message = "List deleted successfully"]

\* the catch of deleteList
DeleteFailure(listId) ==
  [NoResp EXCEPT !.op = "delete", !.code = 500, !.listId = listId,
                 !.message = "Failed to delete list"]

\* the request ends: its response is sent
Finish(p, resp, threw) ==
  /\ procs' = [procs EXCEPT ![p].pc = "done", ![p].ok = resp.ok, ![p].threw = threw]
  /\ last' = resp

\* lines 12-133 of uploadAndDistribute: the file is parsed and validated and
\* the active agents are read
IngestLoad(p) ==
  /\ p \in IngestProcs
  /\ procs[p].pc = "idle"
  /\ \E data \in RaceFiles :
       LET r == UploadAndDistribute(data, agents, lists)
           v == Validate(data)
           agentDocs == FindActiveAgents(agents)
       IN  IF MissingFields(data) # <<>> \/ v.errors # <<>> \/ v.validatedData = <<>>
              \/ agentDocs = <<>>
             THEN /\ procs' = [procs EXCEPT ![p].kind = "ingest", ![p].pc = "done"]
                  /\ last' = r.resp
             ELSE /\ procs' = [procs EXCEPT ![p] =
                        [IdleReq EXCEPT !.kind = "ingest", !.pc = "saveList",
                                        !.items = v.validatedData,
                                        !.agentDocs = agentDocs,
                                        !.uploadId = FreshRaceUploadId(lists, procs)]]
                  /\ UNCHANGED last
  /\ UNCHANGED <<agents, lists, now>>

\* the items of the agent the loop of distributeItems is at
AgentItems(q) ==
  Slice(q.items, q.currentIndex,
        q.currentIndex + ItemCount(Len(q.items), Len(q.agentDocs), q.i))

\* list.save() of distributeItems, line 229
IngestSaveList(p) ==
  /\ p \in IngestProcs
  /\ procs[p].pc = "saveList"
  /\ LET q == procs[p]
         list == NewList(q.uploadId, q.agentDocs[q.i + 1].id, AgentItems(q))
     IN  IF ~ListValid(list)
           THEN /\ Finish(p, IngestFailure("List validation failed"), TRUE)
                /\ UNCHANGED lists
           ELSE /\ lists' = Append(lists, PreSave(list))
                /\ procs' = [procs EXCEPT ![p].pc = "saveAgent",
                                          ![p].listsSaved = @ + 1]
                /\ UNCHANGED last
  /\ UNCHANGED <<agents, now>>

\* agent.incrementAssignedCount of distributeItems, line 232, and the rest of
\* the loop: the remaining agents have no items once one has none
IngestSaveAgent(p) ==
  /\ p \in IngestProcs
  /\ procs[p].pc = "saveAgent"
  /\ LET q == procs[p]
         n == Len(q.items)
         m == Len(q.agentDocs)
         agent == q.agentDocs[q.i + 1]
         doc == IncrementAssignedCount(agent, Len(AgentItems(q)))
     IN  IF ~agents[agent.id].exists
           THEN /\ Finish(p, IngestFailure("No document found for query"), TRUE)
                /\ UNCHANGED agents
         ELSE /\ agents' = SaveAgent(agents, doc)
              /\ IF q.i + 1 < m /\ ItemCount(n, m, q.i + 1) > 0
                   THEN /\ procs' = [procs EXCEPT
                               ![p].pc = "saveList",
                               ![p].i = @ + 1,
                               ![p].currentIndex = @ + ItemCount(n, m, q.i),
                               ![p].agentsSaved = @ + 1]
                        /\ UNCHANGED last
                   ELSE /\ procs' = [procs EXCEPT
                               ![p].pc = "done", ![p].ok = TRUE,
                               ![p].agentsSaved = @ + 1]
                        /\ last' = [NoResp EXCEPT
                               !.op = "ingest", !.ok = TRUE, !.code = 200,
                               !.message = "File uploaded and distributed successfully",
                               !.uploadId = q.uploadId, !.totalItems = n,
                               !.totalAgents = m]
  /\ UNCHANGED <<lists, now>>

\* lines 594-611 of deleteList: List.findById
DeleteFindList(p) ==
  /\ p \in DeleteProcs
  /\ procs[p].pc = "idle"
  /\ \E listId \in 1..Len(lists) :
       IF ~FindList(lists, listId)
         THEN /\ procs' = [procs EXCEPT ![p].kind = "delete", ![p].pc = "done",
                                        ![p].listId = listId]
              /\ last' = DeleteNotFound(listId)
         ELSE /\ procs' = [procs EXCEPT ![p] =
                    [IdleReq EXCEPT !.kind = "delete", !.pc = "findAgent",
                                    !.listId = listId,
                                    !.totalItems = lists[listId].totalItems,
                                    !.agentId = lists[listId].agentId]]
              /\ UNCHANGED last
  /\ UNCHANGED <<agents, lists, now>>

\* line 614 of deleteList: Agent.findById(list.agentId)
DeleteFindAgent(p) ==
  /\ p \in DeleteProcs
  /\ procs[p].pc = "findAgent"
  /\ LET a == procs[p].agentId
     IN  procs' = IF agents[a].exists
                    THEN [procs EXCEPT
                            ![p].pc = "saveAgent",
                            ![p].assignedListsCount = agents[a].assignedListsCount,
                            ![p].totalItemsAssigned = agents[a].totalItemsAssigned]
                    ELSE [procs EXCEPT ![p].pc = "remove"]
  /\ UNCHANGED <<agents, lists, now, last>>

\* lines 616-621 of deleteList: the loaded agent's counters are lowered and
\* agent.save() writes the ones that changed
DeleteSaveAgent(p) ==
  /\ p \in DeleteProcs
  /\ procs[p].pc = "saveAgent"
  /\ LET q == procs[p]
         a == q.agentId
         count == Max(0, q.assignedListsCount - 1)
         total == Max(0, q.totalItemsAssigned - q.totalItems)
         modified == count # q.assignedListsCount \/ total # q.totalItemsAssigned
     IN  IF modified /\ ~agents[a].exists
           THEN /\ Finish(p, DeleteFailure(q.listId), TRUE)
                /\ UNCHANGED agents
           ELSE /\ agents' = [agents EXCEPT
                      ![a].assignedListsCount =
                         Written(@, q.assignedListsCount, count),
                      ![a].totalItemsAssigned =
                         Written(@, q.totalItemsAssigned, total)]
                /\ procs' = [procs EXCEPT ![p].pc = "remove",
                                          ![p].agentsSaved = @ + 1]
                /\ UNCHANGED last
  /\ UNCHANGED <<lists, now>>

\* lines 624-629 of deleteList: List.findByIdAndDelete, which removes the
\* list if it is still there
DeleteRemove(p) ==
  /\ p \in DeleteProcs
  /\ procs[p].pc = "remove"
  /\ lists' = [lists EXCEPT ![procs[p].listId] = NoList]
  /\ procs' = [procs EXCEPT ![p].pc = "done", ![p].ok = TRUE, ![p].removed = TRUE]
  /\ last' = DeleteSuccess(procs[p].listId)
  /\ UNCHANGED <<agents, now>>

\* a storage write of the request throws: the handler's catch answers
StorageThrows(p) ==
  /\ procs[p].pc \in {"saveList", "saveAgent", "remove"}
  /\ Finish(p, IF procs[p].kind = "ingest"
                 THEN IngestFailure("Failed to process file")
                 ELSE DeleteFailure(procs[p].listId), TRUE)
  /\ UNCHANGED <<agents, lists, now>>

\* deleteAgent of the agent controller; Agent.findById and
\* Agent.findByIdAndDelete are taken in one step
DeleteAgentRequest(ags, id) ==
  LET resp == [NoResp EXCEPT !.op = "deleteAgent", !.query = id]
  IN  IF ~ags[id].exists
        THEN [agents |-> ags,
              resp |-> [resp EXCEPT !.code = 404, !.message = "Agent not found"]]
      ELSE IF ags[id].assignedListsCount > 0
        THEN [agents |-> ags,
              resp |-> [resp EXCEPT !.code = 400,
                          !.message = "Cannot delete agent with assigned lists. Please reassign or remove lists first."]]
      ELSE [agents |-> [ags EXCEPT ![id].exists = FALSE],
            resp |-> [resp EXCEPT !.ok = TRUE, !.code = 200,
                        !.message = "Agent deleted successfully"]]

DeleteAgent ==
  \E id \in 1..Len(agents) :
    LET r == DeleteAgentRequest(agents, id)
    IN  /\ agents' = r.agents
        /\ last' = r.resp
        /\ UNCHANGED <<lists, now, procs>>

NextRace ==
  \/ \E p \in IngestProcs : IngestLoad(p)
  \/ \E p \in IngestProcs : IngestSaveList(p)
  \/ \E p \in IngestProcs : IngestSaveAgent(p)
  \/ \E p \in DeleteProcs : DeleteFindList(p)
  \/ \E p \in DeleteProcs : DeleteFindAgent(p)
  \/ \E p \in DeleteProcs : DeleteSaveAgent(p)
  \/ \E p \in DeleteProcs : DeleteRemove(p)
  \/ \E p \in IngestProcs \cup DeleteProcs : StorageThrows(p)
  \/ DeleteAgent

SpecRace == InitRace /\ [][NextRace]_vars

\* List deletions racing over the lists of one agent: the collections are as
\* two uploads, one after the other, leave them
RaceUploads ==
  LET first == UploadAndDistribute(File(AllCols, <<RowB>>), <<AgentDoc(TRUE)>>, <<>>)
  IN  UploadAndDistribute(File(AllCols, <<RowB, RowB>>), first.agents, first.lists)

InitRaceDelete ==
  /\ agents = RaceUploads.agents
  /\ lists = RaceUploads.lists
  /\ now = 1
  /\ last = RaceUploads.resp
  /\ procs = [p \in IngestProcs \cup DeleteProcs |-> IdleReq]

NextRaceDelete ==
  \/ \E p \in DeleteProcs : DeleteFindList(p)
  \/ \E p \in DeleteProcs : DeleteFindAgent(p)
  \/ \E p \in DeleteProcs : DeleteSaveAgent(p)
  \/ \E p \in DeleteProcs : DeleteRemove(p)
  \/ \E p \in DeleteProcs : StorageThrows(p)
  \/ DeleteAgent

SpecRaceDelete == InitRaceDelete /\ [][NextRaceDelete]_vars

----------------------------------------------------------------------------
(* Definitions the properties share *)

RECURSIVE SumSeq(_)
SumSeq(q) == IF q = <<>> THEN 0 ELSE Head(q) + SumSeq(Tail(q))

RECURSIVE Concat(_)
Concat(qs) == IF qs = <<>> THEN <<>> ELSE Head(qs) \o Concat(Tail(qs))

LiveIds(ls) == {k \in 1..Len(ls) : ls[k].live}

OwnedIds(ls, a) == {k \in LiveIds(ls) : ls[k].agentId = a}

\* the number of items agent a holds over all its lists
OwnedItems(ls, a) ==
  SumSeq([k \in 1..Len(ls) |-> IF k \in OwnedIds(ls, a) THEN Len(ls[k].items) ELSE 0])

\* the data model's ContactRecord: what a row must be to pass validation
NameBlank(row) == Trim(row.firstname) = <<>>
PhoneBlank(row) == Trim(row.phone) = <<>>
PhoneMalformed(row) == ~PhoneBlank(row) /\ ~PhonePattern(Trim(row.phone))
RowInvalid(row) == NameBlank(row) \/ PhoneBlank(row) \/ PhoneMalformed(row)
NameTooLong(row) == Len(Trim(row.firstname)) > NameMaxLen
NotesTooLong(row) == Len(Trim(row.notes)) > NotesMaxLen
IsContactRecord(row) == ~RowInvalid(row) /\ ~NameTooLong(row) /\ ~NotesTooLong(row)

InvalidRows(data) == {k \in 1..Len(data.rows) : RowInvalid(data.rows[k])}

NoCounters(ags) ==
  \A a \in 1..Len(ags) : ags[a].assignedListsCount = 0 /\ ags[a].totalItemsAssigned = 0

\* the contact fields of a stored item
ContactOf(it) == [firstName |-> it.firstName, phone |-> it.phone, notes |-> it.notes]

\* the contact a row stands for
ContactOfRow(row) ==
  [firstName |-> Trim(row.firstname), phone |-> Trim(row.phone),
   notes |-> Trim(row.notes)]

----------------------------------------------------------------------------
(* Properties of the first upload (SpecIngest) *)

\* the upload handled last was a file of contact records met by an active agent
DistributedRecords ==
  /\ last.op = "ingest"
  /\ last.data.cols = AllCols
  /\ Len(last.data.rows) >= 1
  /\ \A k \in 1..Len(last.data.rows) : IsContactRecord(last.data.rows[k])
  /\ ActiveFrom(agents, 1) # <<>>

\* C1: N contact records over M >= 1 active agents: the agent at position i
\* (0-indexed, oldest first) holds floor(N/M)+1 items if i < N mod M and
\* floor(N/M) otherwise; the sizes sum to N and differ by at most 1; with no
\* items at all no list is created.
C1_FairShare ==
  /\ DistributedRecords =>
       LET active == ActiveFrom(agents, 1)
           n == Len(last.data.rows)
           m == Len(active)
           size(i) == OwnedItems(lists, active[i + 1])
       IN  /\ last.ok
           /\ \A i \in 0..(m - 1) :
                size(i) = (n \div m) + (IF i < n % m THEN 1 ELSE 0)
           /\ SumSeq([i \in 1..m |-> size(i - 1)]) = n
           /\ \A i, j \in 0..(m - 1) : size(i) - size(j) <= 1
           /\ \A a \in 1..Len(agents) : ~agents[a].isActive => OwnedIds(lists, a) = {}
  /\ \A a \in SUBSET (1..Len(agents)) :
       LET docs == FindActiveAgents([k \in 1..Len(agents) |->
                                       [agents[k] EXCEPT !.isActive = k \in a]])
       IN  a # {} => DistributeItems(<<>>, docs, 1, agents, <<>>).lists = <<>>

C1_Witness ==
  /\ DistributedRecords
  /\ Len(last.data.rows) = 7
  /\ Len(ActiveFrom(agents, 1)) = 3
  /\ [k \in 1..3 |-> Len(lists[k].items)] = <<3, 2, 2>>

\* C2: the items of the created lists, concatenated in agent order, are the
\* uploaded contacts in file order: slices are contiguous, nothing is
\* duplicated, dropped or reordered.
C2_ContiguousSlices ==
  DistributedRecords =>
    /\ \A k \in 1..(Len(lists) - 1) : lists[k].agentId < lists[k + 1].agentId
    /\ Concat([k \in 1..Len(lists) |->
                 [j \in 1..Len(lists[k].items) |-> ContactOf(lists[k].items[j])]])
         = [k \in 1..Len(last.data.rows) |-> ContactOfRow(last.data.rows[k])]

C2_Witness ==
  /\ DistributedRecords
  /\ Len(lists) = 3
  /\ Len(lists[1].items) = 2
  /\ lists[1].items[1].firstName # lists[1].items[2].firstName

\* C5: a file with an invalid row is refused whole: the request fails, no list
\* is created and no agent counter changes; when the header is complete the
\* response names every invalid row, each once, by its row number.
C5_InvalidRowsRejectAll ==
  [][(last'.op = "ingest" /\ InvalidRows(last'.data) # {}) =>
       /\ ~last'.ok
       /\ agents' = agents
       /\ lists' = lists
       /\ last'.data.cols = AllCols =>
            /\ last'.message = "Data validation failed"
            /\ Len(last'.errors) = Cardinality(InvalidRows(last'.data))
            /\ {last'.errors[k].row : k \in 1..Len(last'.errors)}
                 = {k + 1 : k \in InvalidRows(last'.data)}
            /\ \A k \in 1..Len(last'.errors) : last'.errors[k].reason # ""]_vars

C5_Witness ==
  /\ last.op = "ingest"
  /\ Len(last.data.rows) = 2
  /\ Cardinality(InvalidRows(last.data)) = 1
  /\ IsContactRecord(last.data.rows[1])
  /\ Len(ActiveFrom(agents, 1)) >= 2
  /\ Len(last.errors) = 1

\* C6 (as claimed): a row whose trimmed first name exceeds 100 characters is
\* refused by row validation, so the upload leaves no list and no counter.
C6_LongNameLeavesNothing ==
  (last.op = "ingest" /\ \E k \in 1..Len(last.data.rows) : NameTooLong(last.data.rows[k]))
    => /\ ~last.ok
       /\ lists = <<>>
       /\ NoCounters(agents)

\* the file's header is complete and every row passes row validation
AllRowsPass(data) ==
  /\ data.cols = AllCols
  /\ Len(data.rows) >= 1
  /\ \A k \in 1..Len(data.rows) : ~RowInvalid(data.rows[k])

NoneActive(ags) == \A a \in 1..Len(ags) : ~ags[a].isActive

\* C11: an upload whose rows all pass validation (at least one row) while no
\* agent is active fails with the no-active-agents reason; no list is created
\* and no agent counter changes.
C11_NoActiveAgents ==
  [][(last'.op = "ingest" /\ AllRowsPass(last'.data) /\ NoneActive(agents)) =>
       /\ ~last'.ok
       /\ last'.message = "No active agents available for distribution"
       /\ lists' = lists
       /\ agents' = agents]_vars

C11_Witness ==
  /\ last.op = "ingest"
  /\ AllRowsPass(last.data)
  /\ Len(last.data.rows) = 2
  /\ Len(agents) = 2
  /\ NoneActive(agents)
  /\ last.code = 400
  /\ lists = <<>>

\* C14 (as claimed): a file with no data rows is refused with the reason of
\* its own, "No valid data rows found in the file", not with the
\* missing-columns reason nor the row-validation reason.
C14_EmptyInputDistinct ==
  (last.op = "ingest" /\ last.data.cols = AllCols /\ last.data.rows = <<>>) =>
    /\ ~last.ok
    /\ last.message = "No valid data rows found in the file"

\* C15: a file whose header lacks the firstname or the phone column is refused
\* with the missing-columns reason, which names each lacking column; no row
\* reason is given, no list is created and no agent counter changes.
C15_MissingColumns ==
  [][(last'.op = "ingest"
        /\ ("firstname" \notin last'.data.cols \/ "phone" \notin last'.data.cols)) =>
       /\ ~last'.ok
       /\ last'.message = "Missing required columns"
       /\ \A f \in {"firstname", "phone"} \ last'.data.cols :
            \E k \in 1..Len(last'.missing) : last'.missing[k] = f
       /\ last'.errors = <<>>
       /\ lists' = lists
       /\ agents' = agents]_vars

\* the header lacked the phone column and the one row had no phone
C15_Witness ==
  /\ last.op = "ingest"
  /\ last.data.cols = {"firstname", "notes"}
  /\ Len(last.data.rows) = 1
  /\ last.missing = <<"phone">>
  /\ ActiveFrom(agents, 1) # <<>>

\* C16 (as claimed): a file with the firstname and phone columns and no notes
\* column, all of whose rows are valid, is distributed, and every contact
\* stored for it has empty notes.
C16_NotesColumnOptional ==
  (/\ last.op = "ingest"
   /\ last.data.cols = {"firstname", "phone"}
   /\ Len(last.data.rows) >= 1
   /\ \A k \in 1..Len(last.data.rows) :
        ~RowInvalid(last.data.rows[k]) /\ ~NameTooLong(last.data.rows[k])
   /\ ~NoneActive(agents))
  => /\ last.ok
     /\ SumSeq([k \in 1..Len(lists) |-> Len(lists[k].items)]) = Len(last.data.rows)
     /\ \A k \in 1..Len(lists) : \A j \in 1..Len(lists[k].items) :
          lists[k].items[j].notes = <<>>

\* C17 (as claimed): a file of valid rows, one of them with notes longer than
\* 500 characters, is distributed like any other: every row is stored, with
\* its notes trimmed and cut to the limit.
C17_LongNotesTruncated ==
  (/\ last.op = "ingest"
   /\ last.data.cols = AllCols
   /\ Len(last.data.rows) >= 1
   /\ \A k \in 1..Len(last.data.rows) :
        ~RowInvalid(last.data.rows[k]) /\ ~NameTooLong(last.data.rows[k])
   /\ \E k \in 1..Len(last.data.rows) : NotesTooLong(last.data.rows[k])
   /\ ~NoneActive(agents))
  => /\ last.ok
     /\ Concat([k \in 1..Len(lists) |->
                  [j \in 1..Len(lists[k].items) |-> lists[k].items[j].notes]])
          = [k \in 1..Len(last.data.rows) |->
               SubSeq(Trim(last.data.rows[k].notes), 1,
                      Min(NotesMaxLen, Len(Trim(last.data.rows[k].notes))))]

\* the reason the first failing check of a row gives, "" for a valid row
FirstFailing(row) ==
  IF NameBlank(row) THEN "FirstName is required"
  ELSE IF PhoneBlank(row) THEN "Phone is required"
  ELSE IF PhoneMalformed(row) THEN "Invalid phone number format"
  ELSE ""

\* the invalid rows' positions (1-based), ascending
RECURSIVE InvalidFrom(_, _)
InvalidFrom(data, k) ==
  IF k > Len(data.rows) THEN <<>>
  ELSE (IF RowInvalid(data.rows[k]) THEN <<k>> ELSE <<>>) \o InvalidFrom(data, k + 1)

\* C24: row validation gives one reason for each invalid row and none for a
\* valid one, in file order; the data row at 0-based position i is cited as
\* row i+2, and the reason is that of the first failing check among: first
\* name blank, phone blank, phone format invalid.
C24_RowReasons ==
  (last.op = "ingest" /\ last.data.cols = AllCols /\ Len(last.data.rows) >= 1) =>
    LET bad == InvalidFrom(last.data, 1)
    IN  /\ Len(last.errors) = Len(bad)
        /\ \A j \in 1..Len(bad) :
             /\ last.errors[j].row = (bad[j] - 1) + 2
             /\ last.errors[j].reason = FirstFailing(last.data.rows[bad[j]])
             /\ last.errors[j].reason # ""

\* a valid row, then a row with the phone "abc": one reason, for row 3
C24_Witness ==
  /\ last.op = "ingest" /\ last.data.cols = AllCols
  /\ Len(last.data.rows) = 2
  /\ ~RowInvalid(last.data.rows[1])
  /\ Trim(last.data.rows[2].phone) = <<"a", "b", "c">>
  /\ last.errors = <<[row |-> 3, reason |-> "Invalid phone number format"]>>

----------------------------------------------------------------------------
(* Properties of requests handled one at a time (Spec) *)

ItemsWith(doc, st) == {j \in 1..Len(doc.items) : doc.items[j].status = st}

\* C3: every stored list's counters equal the counts recomputed from its items.
C3_CountersMatchItems ==
  \A k \in LiveIds(lists) :
    /\ lists[k].totalItems = Len(lists[k].items)
    /\ lists[k].completedItems = Cardinality(ItemsWith(lists[k], "completed"))
    /\ lists[k].pendingItems = Cardinality(ItemsWith(lists[k], "pending"))

C3_Witness ==
  \E k \in LiveIds(lists) :
    /\ Len(lists[k].items) = 2
    /\ lists[k].completedItems = 1
    /\ lists[k].pendingItems = 0
    /\ last.op = "update" /\ last.ok /\ last.before = "completed"

\* the step is a successful status update of item i of list l
Updated(l, i) == last'.op = "update" /\ last'.ok /\ last'.listId = l /\ last'.itemId = i

\* C7: contactedAt is written only by an update to contacted that finds it
\* unset, and completedAt only by an update to completed that finds it unset;
\* no other step changes or clears either stamp of a stored item.
C7_TimestampsOnce ==
  [][\A l \in LiveIds(lists) \cap LiveIds(lists') :
       /\ Len(lists'[l].items) = Len(lists[l].items)
       /\ \A i \in 1..Len(lists[l].items) :
            LET old == lists[l].items[i]
                new == lists'[l].items[i]
            IN  /\ new.contactedAt =
                     IF Updated(l, i) /\ last'.status = "contacted" /\ old.contactedAt = 0
                       THEN now ELSE old.contactedAt
                /\ new.completedAt =
                     IF Updated(l, i) /\ last'.status = "completed" /\ old.completedAt = 0
                       THEN now ELSE old.completedAt]_vars

\* the item was contacted, completed, and then contacted again
C7_Witness ==
  /\ last.op = "update" /\ last.ok /\ last.status = "contacted"
  /\ last.before = "completed"
  /\ LET it == lists[last.listId].items[last.itemId]
     IN  it.contactedAt = 1 /\ it.completedAt = 2

\* C8: a status update without notes of an item that already has that status
\* changes nothing in the stored lists: status, stamps and counters stay.
C8_SameStatusIdempotent ==
  [][(last'.op = "update" /\ last'.ok /\ last'.notes = <<>>
        /\ last'.before = last'.status) => lists' = lists]_vars

C8_Witness ==
  /\ last.op = "update" /\ last.ok /\ last.notes = <<>>
  /\ last.before = "completed" /\ last.status = "completed"
  /\ lists[last.listId].completedItems = 1
  /\ lists[last.listId].items[last.itemId].completedAt = 1
  /\ now = 2

\* the lists an upload step created for agent a
CreatedFor(a) == {k \in (Len(lists) + 1)..Len(lists') : lists'[k].agentId = a}

\* C9: a successful upload raises assignedListsCount by 1 and
\* totalItemsAssigned by the group size for each agent that got a list, and
\* leaves the counters of every other agent alone.
C9_IngestCounters ==
  [][(last'.op = "ingest" /\ last'.ok) =>
       /\ Len(agents') = Len(agents)
       /\ \A a \in 1..Len(agents) :
            IF CreatedFor(a) = {}
              THEN agents'[a] = agents[a]
              ELSE /\ Cardinality(CreatedFor(a)) = 1
                   /\ agents'[a].assignedListsCount = agents[a].assignedListsCount + 1
                   /\ agents'[a].totalItemsAssigned =
                        agents[a].totalItemsAssigned + OwnedItems(lists', a)
                          - OwnedItems(lists, a)]_vars

C9_Witness ==
  /\ last.op = "ingest" /\ last.ok
  /\ \E a \in 1..Len(agents) :
       /\ agents[a].assignedListsCount = 2
       /\ agents[a].totalItemsAssigned = 2
       /\ Cardinality(OwnedIds(lists, a)) = 2

\* C10: deleting a stored list of k items removes it and lowers its agent's
\* assignedListsCount by 1 and totalItemsAssigned by k, not below 0; deleting
\* it again is refused and changes nothing; no counter is ever negative.
C10_DeleteCounters ==
  /\ [][last'.op = "delete" =>
          LET l == last'.listId
              a == lists[l].agentId
          IN  IF last'.ok
                THEN /\ lists[l].live
                     /\ lists' = [lists EXCEPT ![l] = NoList]
                     /\ agents' = [agents EXCEPT
                          ![a].assignedListsCount = Max(0, @ - 1),
                          ![a].totalItemsAssigned = Max(0, @ - Len(lists[l].items))]
                ELSE /\ ~lists[l].live
                     /\ lists' = lists
                     /\ agents' = agents]_vars
  /\ [](\A a \in 1..Len(agents) :
          agents[a].assignedListsCount >= 0 /\ agents[a].totalItemsAssigned >= 0)

\* a list was deleted and the delete was asked for again
C10_Witness ==
  /\ last.op = "delete" /\ ~last.ok
  /\ ~lists[last.listId].live
  /\ \E a \in 1..Len(agents) :
       agents[a].assignedListsCount = 1 /\ agents[a].totalItemsAssigned = 1

\* C12: no stored list is ever empty; a successful upload of N rows met by M
\* active agents creates exactly min(N, M) lists, and when N < M the agents
\* at positions N..M-1 get no list and keep their counters.
C12_NoEmptyLists ==
  /\ [](\A k \in LiveIds(lists) : Len(lists[k].items) >= 1 /\ lists[k].totalItems >= 1)
  /\ [][(last'.op = "ingest" /\ last'.ok) =>
          LET active == ActiveFrom(agents, 1)
              n == Len(last'.data.rows)
              m == Len(active)
          IN  /\ Len(lists') - Len(lists) = Min(n, m)
              /\ \A i \in (n + 1)..m :
                   /\ CreatedFor(active[i]) = {}
                   /\ agents'[active[i]] = agents[active[i]]]_vars

\* one row met two active agents: the second one got nothing
C12_Witness ==
  /\ last.op = "ingest" /\ last.ok
  /\ Len(last.data.rows) = 1
  /\ Len(ActiveFrom(agents, 1)) = 2
  /\ Cardinality(LiveIds(lists)) = 1
  /\ OwnedIds(lists, 2) = {}
  /\ agents[2].assignedListsCount = 0

\* C13: a status update that names an item the addressed list does not hold
\* is answered 404 "Item not found" and leaves every stored list, and so every
\* item's status, stamps and notes and every counter, as it was.
C13_ItemNotFound ==
  /\ [](\A l \in LiveIds(lists), i \in 1..(MaxRows + 2), st \in Statuses,
           notes \in NotesSamples :
           ~(i \in 1..Len(lists[l].items)) =>
             LET r == UpdateItemStatus(lists, l, i, st, notes, now)
             IN  /\ ~r.resp.ok
                 /\ r.resp.code = 404
                 /\ r.resp.message = "Item not found"
                 /\ r.lists = lists)
  /\ [][(last'.op = "update" /\ last'.message = "Item not found") =>
          lists' = lists /\ agents' = agents /\ now' = now]_vars

\* the update of a missing item met a list with a completed item
C13_Witness ==
  /\ last.op = "update" /\ last.code = 404 /\ last.message = "Item not found"
  /\ \E l \in LiveIds(lists) :
       /\ Len(lists[l].items) = 1
       /\ lists[l].items[1].status = "completed"
       /\ lists[l].completedItems = 1

\* C22: a status update of a stored item to any of the four statuses
\* succeeds, whatever status the item has, and leaves the item in the status
\* asked for; no status is terminal.
C22_AnyTransition ==
  /\ [](\A l \in LiveIds(lists), st \in Statuses, notes \in NotesSamples :
          \A i \in 1..Len(lists[l].items) :
            LET r == UpdateItemStatus(lists, l, i, st, notes, now)
            IN  /\ r.resp.ok
                /\ r.resp.code = 200
                /\ r.lists[l].items[i].status = st)
  /\ [][\A l \in LiveIds(lists) : \A i \in 1..Len(lists[l].items) :
          Updated(l, i) => lists'[l].items[i].status = last'.status]_vars

\* a completed item was set back to pending
C22_Witness ==
  /\ last.op = "update" /\ last.ok
  /\ last.before = "completed" /\ last.status = "pending"
  /\ lists[last.listId].items[last.itemId].status = "pending"
  /\ lists[last.listId].items[last.itemId].completedAt = 1
  /\ lists[last.listId].pendingItems = Len(lists[last.listId].items)

----------------------------------------------------------------------------
(* Properties of the statistics (SpecStats) *)

\* the sum of a counter over the stored lists at ids
CounterSum(ls, ids, field) ==
  SumSeq([k \in 1..Len(ls) |-> IF k \in ids THEN ls[k][field] ELSE 0])

BatchIds(ls, uploadId) == {k \in LiveIds(ls) : ls[k].uploadId = uploadId}

\* the statistics st are the sums over the lists at ids, and their number
SumsOver(st, ls, ids) ==
  /\ st.totalItems = CounterSum(ls, ids, "totalItems")
  /\ st.completedItems = CounterSum(ls, ids, "completedItems")
  /\ st.pendingItems = CounterSum(ls, ids, "pendingItems")
  /\ st.totalLists = Cardinality(ids)

\* C18 (as claimed): the statistics of an upload and the statistics of an
\* agent are the sums of totalItems, completedItems and pendingItems over
\* exactly the stored lists of that upload, respectively that agent, with the
\* number of those lists; an upload with no list is answered not-found, an
\* agent with no list gets zeros.
C18_StatsSums ==
  /\ last.op = "getDistributions" =>
       LET ids == BatchIds(lists, last.query)
       IN  IF ids = {} THEN ~last.ok /\ last.code = 404
           ELSE last.ok /\ SumsOver(last.stats, lists, ids)
  /\ last.op = "getAgentLists" =>
       /\ last.ok
       /\ SumsOver(last.stats, lists, OwnedIds(lists, last.query))

\* C19: the status reported for an upload is completed iff its summed
\* completedItems equal its summed totalItems, in_progress iff the completed
\* ones are more than 0 and fewer than the total, and pending otherwise; with
\* no status filter every stored upload is reported, with the sums over its
\* lists.
C19_OverallStatus ==
  last.op = "getAllDistributions" =>
    /\ \A k \in 1..Len(last.groups) :
         LET g == last.groups[k]
         IN  /\ g.status = "completed" <=> g.completedItems = g.totalItems
             /\ g.status = "in_progress" <=>
                  (0 < g.completedItems /\ g.completedItems < g.totalItems)
             /\ g.status \in {"completed", "in_progress", "pending"}
    /\ last.status = "all" =>
         /\ {last.groups[k].id : k \in 1..Len(last.groups)}
              = {lists[k].uploadId : k \in LiveIds(lists)}
         /\ \A k \in 1..Len(last.groups) :
              LET g == last.groups[k]
                  ids == BatchIds(lists, g.id)
              IN  /\ g.totalItems = CounterSum(lists, ids, "totalItems")
                  /\ g.completedItems = CounterSum(lists, ids, "completedItems")

\* an upload of two lists, one of them completed
C19_Witness ==
  /\ last.op = "getAllDistributions" /\ last.status = "all"
  /\ \E k \in 1..Len(last.groups) :
       /\ Cardinality(last.groups[k].lists) = 2
       /\ last.groups[k].totalItems = 2
       /\ last.groups[k].completedItems = 1
       /\ last.groups[k].status = "in_progress"

\* C20: the dashboard reports the sums of totalItems, completedItems and
\* pendingItems over all stored lists, their number as totalLists and the
\* number of distinct upload ids among them as activeDistributions; with no
\* stored list every value is 0.
C20_DashboardSums ==
  last.op = "getDashboardStats" =>
    /\ last.ok
    /\ SumsOver(last.stats, lists, LiveIds(lists))
    /\ last.stats.activeDistributions
         = Cardinality({lists[k].uploadId : k \in LiveIds(lists)})
    /\ LiveIds(lists) = {} =>
         /\ last.stats.totalItems = 0 /\ last.stats.completedItems = 0
         /\ last.stats.pendingItems = 0 /\ last.stats.totalLists = 0
         /\ last.stats.activeDistributions = 0

\* two lists of one upload, one item completed
C20_Witness ==
  /\ last.op = "getDashboardStats"
  /\ last.stats.totalLists = 2
  /\ last.stats.activeDistributions = 1
  /\ last.stats.totalItems = 2
  /\ last.stats.completedItems = 1
  /\ last.stats.pendingItems = 0

\* the overall status of the upload whose lists are at ids
StatusOfBatch(ls, ids) ==
  LET completed == CounterSum(ls, ids, "completedItems")
      total == CounterSum(ls, ids, "totalItems")
  IN  IF completed = total THEN "completed"
      ELSE IF 0 < completed /\ completed < total THEN "in_progress"
      ELSE "pending"

\* C28 (as claimed): the listing filtered by a status s holds exactly the
\* uploads whose overall status, taken from the counters summed over all their
\* lists, is s, and reports for each the sums and the number of agents over
\* all its lists.
C28_FilteredListing ==
  (last.op = "getAllDistributions"
     /\ last.status \in {"completed", "in_progress", "pending"}) =>
    /\ {last.groups[k].id : k \in 1..Len(last.groups)}
         = {u \in {lists[k].uploadId : k \in LiveIds(lists)} :
              StatusOfBatch(lists, BatchIds(lists, u)) = last.status}
    /\ \A k \in 1..Len(last.groups) :
         LET g == last.groups[k]
             ids == BatchIds(lists, g.id)
         IN  /\ g.totalItems = CounterSum(lists, ids, "totalItems")
             /\ g.completedItems = CounterSum(lists, ids, "completedItems")
             /\ g.pendingItems = CounterSum(lists, ids, "pendingItems")
             /\ g.assignedAgents = Cardinality({lists[j].agentId : j \in ids})
             /\ g.status = last.status

----------------------------------------------------------------------------
(* The agents' counters under requests handled one at a time (Spec) *)

\* C25: with uploads, status updates and deletes handled one at a time, every
\* agent's assignedListsCount is the number of stored lists it owns and its
\* totalItemsAssigned is the sum of their totalItems.
C25_AgentCounters ==
  \A a \in 1..Len(agents) :
    /\ agents[a].assignedListsCount = Cardinality(OwnedIds(lists, a))
    /\ agents[a].totalItemsAssigned = CounterSum(lists, OwnedIds(lists, a), "totalItems")

\* an agent got two lists and one of them was deleted
C25_Witness ==
  /\ last.op = "delete" /\ last.ok
  /\ \E a \in 1..Len(agents) :
       /\ lists[last.listId].agentId = 0
       /\ Cardinality(OwnedIds(lists, a)) = 1
       /\ agents[a].assignedListsCount = 1
       /\ agents[a].totalItemsAssigned = 1
       /\ \E k \in 1..Len(lists) : ~lists[k].live

----------------------------------------------------------------------------
(* Properties of the percentages (SpecPercent) *)

\* completed / total * 100 rounded to the nearest integer, a half going up
HalfUpPercent(completed, total) ==
  IF total = 0 THEN 0 ELSE (200 * completed + total) \div (2 * total)

\* C21 (as claimed): the completion percentage a status update returns, taken
\* from the list's counters after the update, and the dashboard's completion
\* rate are completed / total * 100 rounded to the nearest integer with halves
\* going up, 0 when the total is 0, and within 0..100.
C21_CompletionPercentage ==
  /\ (last.op = "update" /\ last.ok) =>
       /\ last.completionPercentage
            = HalfUpPercent(lists[last.listId].completedItems,
                            lists[last.listId].totalItems)
       /\ last.completionPercentage \in 0..100
  /\ last.op = "getDashboardStats" =>
       /\ last.stats.completionRate
            = HalfUpPercent(last.stats.completedItems, last.stats.totalItems)
       /\ last.stats.completionRate \in 0..100

----------------------------------------------------------------------------
(* Properties of interleaved status updates (SpecConc) *)

\* C4 (as claimed): once two status updates of two different items of one
\* list have both finished, however their steps interleaved, the list's
\* completedItems and pendingItems equal the counts over its stored items.
C4_NoLostRecount ==
  \A p, q \in 1..MaxProcs :
    (/\ p # q
     /\ procs[p].pc = "done" /\ procs[p].ok
     /\ procs[q].pc = "done" /\ procs[q].ok
     /\ procs[p].listId = procs[q].listId
     /\ procs[p].itemId # procs[q].itemId)
    => LET doc == lists[procs[p].listId]
       IN  /\ doc.completedItems = Cardinality(ItemsWith(doc, "completed"))
           /\ doc.pendingItems = Cardinality(ItemsWith(doc, "pending"))

\* the step ends a status update with success; direct, when the list the
\* request had read is still the stored one
Saved(p) == procs[p].pc = "loaded" /\ procs'[p].pc = "done" /\ procs'[p].ok
Direct(p) == procs[p].doc = lists[procs[p].listId]

\* what upload q read of agent a's counters, and the items it gave to a
LoadedOf(q, a) == {q.agentDocs[k] : k \in {j \in 1..Len(q.agentDocs) : q.agentDocs[j].id = a}}

ShareOf(q, a) ==
  SumSeq([k \in 1..Len(q.agentDocs) |->
            IF q.agentDocs[k].id = a
              THEN ItemCount(Len(q.items), Len(q.agentDocs), k - 1) ELSE 0])

Succeeded(p, kind) == procs[p].kind = kind /\ procs[p].pc = "done" /\ procs[p].ok

\* C23: an upload or a list deletion one of whose storage writes failed, so
\* that a list write or removal and its counter update did not both take
\* effect, answers with a failure (400 or 500 and a message); a request that
\* answers with success has made every list write together with its counter
\* update, or has removed the list.
C23_FailuresReported ==
  /\ [](\A p \in DOMAIN procs :
          /\ procs[p].threw => procs[p].pc = "done" /\ ~procs[p].ok
          /\ Succeeded(p, "ingest") =>
               procs[p].listsSaved >= 1 /\ procs[p].agentsSaved = procs[p].listsSaved
          /\ Succeeded(p, "delete") => procs[p].removed)
  /\ [][\A p \in DOMAIN procs :
          ~procs[p].threw /\ procs'[p].threw =>
            /\ ~last'.ok
            /\ last'.code \in {400, 500}
            /\ last'.message # ""
            /\ last'.op = procs[p].kind]_vars

\* an upload wrote a list, the counter update after it failed, and the caller
\* was told so
C23_Witness ==
  \E p \in IngestProcs :
    /\ procs[p].threw
    /\ procs[p].listsSaved = procs[p].agentsSaved + 1
    /\ ~procs[p].ok
    /\ last.op = "ingest" /\ ~last.ok /\ last.code = 400

\* C26: when two uploads that read the same counters of an agent have both
\* succeeded (and no list deletion has run), the agent's assignedListsCount
\* is 2 more than what they read and its totalItemsAssigned has grown by the
\* items of both lists.
C26_NoLostIncrement ==
  \A p, q \in IngestProcs : \A a \in 1..Len(agents) :
    ( /\ p < q
      /\ Succeeded(p, "ingest") /\ Succeeded(q, "ingest")
      /\ LoadedOf(procs[p], a) # {}
      /\ LoadedOf(procs[p], a) = LoadedOf(procs[q], a)
      /\ \A d \in DeleteProcs : procs[d].pc = "idle" )
    => \A doc \in LoadedOf(procs[p], a) :
         /\ agents[a].assignedListsCount = doc.assignedListsCount + 2
         /\ agents[a].totalItemsAssigned =
              doc.totalItemsAssigned + ShareOf(procs[p], a) + ShareOf(procs[q], a)

\* C27: when two deletions of the same list have both succeeded, the owner's
\* counters are those of the lists it still has: the list was taken off its
\* counters once.
C27_DecrementedOnce ==
  \A p, q \in DeleteProcs :
    ( /\ p < q
      /\ Succeeded(p, "delete") /\ Succeeded(q, "delete")
      /\ procs[p].listId = procs[q].listId
      /\ agents[procs[p].agentId].exists )
    => LET a == procs[p].agentId
       IN  /\ agents[a].assignedListsCount = Cardinality(OwnedIds(lists, a))
           /\ agents[a].totalItemsAssigned = OwnedItems(lists, a)

\* C29: every stored list belongs to an agent that exists.
C29_OwnersExist ==
  \A k \in LiveIds(lists) : agents[lists[k].agentId].exists

\* deleteAgent on an agent with assigned lists changes nothing and is refused
C29_Refusal ==
  [][\A a \in 1..Len(agents) :
       last'.op = "deleteAgent" /\ last'.query = a /\ last' # last
       /\ agents[a].exists /\ agents[a].assignedListsCount > 0
       => agents' = agents /\ lists' = lists /\ ~last'.ok /\ last'.code = 400]_vars

\* C30: a successful status update leaves alone the agents, every other list,
\* the list's owner, upload, number and order of items and totalItems, and
\* every other item; of the addressed item it leaves the name and the phone.
\* Run on the stored list, it sets the item's status to the one asked for, its
\* notes to the trimmed notes of the request when there are any, and stamps
\* only contactedAt or completedAt.
C30_UpdateFrame ==
  [][\A p \in 1..MaxProcs :
       Saved(p) =>
         LET l == procs[p].listId
             i == procs[p].itemId
             old == lists[l]
             new == lists'[l]
         IN  /\ agents' = agents
             /\ Len(lists') = Len(lists)
             /\ \A k \in 1..Len(lists) : k # l => lists'[k] = lists[k]
             /\ new.live = old.live
             /\ new.uploadId = old.uploadId
             /\ new.agentId = old.agentId
             /\ new.totalItems = old.totalItems
             /\ Len(new.items) = Len(old.items)
             /\ \A j \in 1..Len(old.items) : j # i => new.items[j] = old.items[j]
             /\ new.items[i].firstName = old.items[i].firstName
             /\ new.items[i].phone = old.items[i].phone
             /\ Direct(p) =>
                  /\ new.items[i].status = procs[p].status
                  /\ new.items[i].notes =
                       IF procs[p].notes # <<>> THEN Trim(procs[p].notes)
                       ELSE old.items[i].notes
                  /\ procs[p].status # "contacted" =>
                       new.items[i].contactedAt = old.items[i].contactedAt
                  /\ procs[p].status # "completed" =>
                       new.items[i].completedAt = old.items[i].completedAt]_vars

\* an update with notes of one item of a list of two
C30_Witness ==
  /\ last.op = "update" /\ last.ok /\ last.notes = <<" ", "m">>
  /\ last.status = "failed"
  /\ Len(lists[last.listId].items) = 2
  /\ lists[last.listId].items[last.itemId].notes = <<"m">>
  /\ \E j \in 1..2 :
       /\ j # last.itemId
       /\ lists[last.listId].items[j].notes = <<"n">>
       /\ lists[last.listId].items[j].status = "pending"
  /\ lists[last.listId].totalItems = 2
  /\ lists[last.listId].pendingItems = 1

====
